---------------------------- MODULE Spec2Model ----------------------------
(***************************************************************************)
(* A model of NatteeScraper2: the orchestration of main.py (chunking, the  *)
(* worker pool, the progress queue, the aggregate output) and the          *)
(* extractors of natteescraper/scraper.py and natteescraper/models.py.     *)
(***************************************************************************)
EXTENDS Integers, Sequences, FiniteSets, TLC

(***************************************************************************)
(* Bounds of the model and constants of the program.                       *)
(***************************************************************************)
\* main.py:36
NUM_PROCESSES == 8
\* longest descriptor list of the orchestration specification
MaxTasks == 3
\* longest descriptor list of the chunking specification
MaxList == 17

VARIABLES
    \* ---- main.py: main() and process_chunk() ----
    mainpc,          \* position of main()
    partial_tasks,   \* scraper.get_partial_tasks()
    chunks,          \* the slices built by main()
    wpc,             \* per process_chunk invocation: its position
    widx,            \* per invocation: index of the item of the for loop
    wsession,        \* per invocation: the local variable session
    wresults,        \* per invocation: the local list results
    progress_queue,  \* number of signals in the manager queue
    completed,       \* main()'s counter of signals read
    results,         \* what results.get() returned
    all_results,     \* the list written to result.json
    sessions,        \* the session objects that exist: id -> its state
    used,            \* session id -> the processes that issued a GET/POST on it
    \* ---- main.py lines 57-62, the list comprehension turn by turn ----
    cpc,             \* "off", "slicing" or "built"
    clist,           \* partial_tasks
    ci,              \* the comprehension's variable i
    cchunks,         \* the slices built so far
    \* ---- scraper.py: __scrape_tasks on the landing page ----
    catpc,           \* "off", "locate", "rows", "done" or "raised"
    page,            \* the landing page: its table rows and dropdown options
    tasks_id,        \* what __get_tasks_id returned
    ri,              \* the row the for loop is at
    tasks,           \* the local list tasks
    log,             \* the rows reported by print
    caterr,          \* the exception that left __scrape_tasks
    \* ---- scraper.py: _clean_scraped_code, applied and applied again ----
    clpc,            \* "off", "raw", "once" or "twice"
    raw,             \* the text the textarea pattern matched
    once,            \* _clean_scraped_code(raw)
    twice,           \* _clean_scraped_code(once)
    \* ---- get_hall_of_fame, get_test_cases and PartialTask.resolve ----
    rpc,             \* "off", "hof", "rows", "tc", "returned" or "raised"
    rpath,           \* the entry point called
    hof_page,        \* the hall-of-fame page of the task
    tc_page,         \* the textarea texts of the task's test-case page
    hof_i,           \* the row the for loop is at
    fame,            \* the local dict fame
    rresult,         \* the value returned
    rerr,            \* the exception raised
    \* ---- scraper.py: _scrape_submission on one submission page ----
    subpc,           \* "off", "page", "returned" or "raised"
    subpage,         \* the submission page the GET answered with
    subresult        \* the Submissions returned or the exception raised

mainVars == <<mainpc, partial_tasks, chunks, wpc, widx, wsession, wresults,
              progress_queue, completed, results, all_results, sessions, used>>

chunkVars == <<cpc, clist, ci, cchunks>>

catVars == <<catpc, page, tasks_id, ri, tasks, log, caterr>>

cleanVars == <<clpc, raw, once, twice>>

resVars == <<rpc, rpath, hof_page, tc_page, hof_i, fame, rresult, rerr>>

subVars == <<subpc, subpage, subresult>>

vars == <<mainVars, chunkVars, catVars, cleanVars, resVars, subVars>>

\* what the steps of one part of the program leave alone
notMain == <<chunkVars, catVars, cleanVars, resVars, subVars>>
notChunk == <<mainVars, catVars, cleanVars, resVars, subVars>>
notCat == <<mainVars, chunkVars, cleanVars, resVars, subVars>>
notClean == <<mainVars, chunkVars, catVars, resVars, subVars>>
notRes == <<mainVars, chunkVars, catVars, cleanVars, subVars>>
notSub == <<mainVars, chunkVars, catVars, cleanVars, resVars>>

(***************************************************************************)
(* Helpers on sequences.                                                   *)
(***************************************************************************)
Min(a, b) == IF a < b THEN a ELSE b
Max(a, b) == IF a > b THEN a ELSE b

\* Python's s[i:j] for 0 <= i, with j clipped to len(s)
Slice(s, i, j) == SubSeq(s, i + 1, Min(j, Len(s)))

\* the sequences over S of length at most n
SeqsUpTo(S, n) == UNION {[1..k -> S] : k \in 0..n}

RECURSIVE Flatten(_)
Flatten(ss) == IF ss = <<>> THEN <<>> ELSE Head(ss) \o Flatten(Tail(ss))

\* range(0, n, step) as a sequence
RangeStep(n, step) == [k \in 1..((n + step - 1) \div step) |-> (k - 1) * step]

(***************************************************************************)
(* Data of the orchestration: descriptors, tasks, error records.           *)
(***************************************************************************)
TaskIds == {"t1", "t2"}

\* models.py PartialTask
PartialTask(name, nickname, id, url) ==
    [task_name |-> name, task_nickname |-> nickname, task_id |-> id, pdf_url |-> url]

Descriptors == {PartialTask(<<"A+B">>, <<"SUM">>, t, "https://cedt-grader.nattee.net/get_statement") : t \in TaskIds}

\* what task.resolve(session) can do in a worker: return the Task of the
\* descriptor or raise an Exception with a message
ResolveReturns(d) == [kind |-> "task", task_name |-> d.task_name,
                      task_nickname |-> d.task_nickname, task_id |-> d.task_id,
                      pdf_url |-> d.pdf_url]
ResolveErrors == {"nono"}

\* json.dumps / model_dump_json: the text of a value; json.loads reads it back
JsonDumps(v) == <<"json", v>>
JsonLoads(s) == s[2]

ErrorRecord(msg, id) == [kind |-> "error", error |-> msg, task_id |-> id]

(***************************************************************************)
(* Sessions.  A session object lives in one process; an object is named by *)
(* the process that holds it and how it came to be there.                  *)
(***************************************************************************)
Main == 0
\* the process_chunk invocations map_async has been given
Invocations == DOMAIN wpc

\* scraper.session of a process: the one __setup_login made in main, its
\* pickled copy in a worker invocation
ScraperSession(p) == <<p, "scraper.session">>

\* scraper.py clone_session: a new Session with the cookies and headers of
\* self.session
clone_session(p) ==
    [id |-> <<p, "clone">>,
     state |-> [cookies |-> sessions[ScraperSession(p)].cookies,
                headers |-> sessions[ScraperSession(p)].headers]]

LoggedIn == [cookies |-> "auth", headers |-> "default"]

(***************************************************************************)
(* main.py: the slices.                                                    *)
(***************************************************************************)
ChunkSize(list) == Max(1, Len(list) \div NUM_PROCESSES)

MakeChunks(list) ==
    LET cs == ChunkSize(list)
        starts == RangeStep(Len(list), cs)
    IN [k \in 1..Len(starts) |-> Slice(list, starts[k], starts[k] + cs)]

(***************************************************************************)
(* main.py: main() after NatteeScraper(post_data) succeeded.               *)
(***************************************************************************)
MainInit ==
    /\ mainpc = "chunk"
    /\ partial_tasks \in SeqsUpTo(Descriptors, MaxTasks)
    /\ chunks = <<>>
    /\ wpc = <<>>
    /\ widx = <<>>
    /\ wsession = <<>>
    /\ wresults = <<>>
    /\ progress_queue = 0
    /\ completed = 0
    /\ results = <<>>
    /\ all_results = <<>>
    /\ sessions = (ScraperSession(Main) :> LoggedIn)
    /\ used = (ScraperSession(Main) :> {Main})

\* lines 57-62
MainChunk ==
    /\ mainpc = "chunk"
    /\ chunks' = MakeChunks(partial_tasks)
    /\ mainpc' = "dispatch"
    /\ UNCHANGED <<partial_tasks, wpc, widx, wsession, wresults, progress_queue,
                   completed, results, all_results, sessions, used,
                   notMain>>

\* lines 64-77: the queue, the pool, map_async over the slices; the scraper
\* is pickled into each invocation's arguments
MainDispatch ==
    /\ mainpc = "dispatch"
    /\ wpc' = [i \in 1..Len(chunks) |-> "queued"]
    /\ widx' = [i \in 1..Len(chunks) |-> 0]
    /\ wsession' = [i \in 1..Len(chunks) |-> <<>>]
    /\ wresults' = [i \in 1..Len(chunks) |-> <<>>]
    /\ sessions' = [s \in DOMAIN sessions \cup {ScraperSession(i) : i \in 1..Len(chunks)} |->
                        sessions[ScraperSession(Main)]]
    /\ used' = [s \in DOMAIN sessions \cup {ScraperSession(i) : i \in 1..Len(chunks)} |->
                        IF s \in DOMAIN used THEN used[s] ELSE {}]
    /\ progress_queue' = 0
    /\ completed' = 0
    /\ mainpc' = "progress"
    /\ UNCHANGED <<partial_tasks, chunks, results, all_results,
                   notMain>>

\* lines 78-81, one turn of the loop: progress_queue.get() blocks on an
\* empty queue
MainProgressGet ==
    /\ mainpc = "progress"
    /\ completed < Len(partial_tasks)
    /\ progress_queue > 0
    /\ progress_queue' = progress_queue - 1
    /\ completed' = completed + 1
    /\ UNCHANGED <<mainpc, partial_tasks, chunks, wpc, widx, wsession, wresults,
                   results, all_results, sessions, used,
                   notMain>>

\* line 78, the loop's exit
MainProgressDone ==
    /\ mainpc = "progress"
    /\ ~(completed < Len(partial_tasks))
    /\ mainpc' = "get"
    /\ UNCHANGED <<partial_tasks, chunks, wpc, widx, wsession, wresults,
                   progress_queue, completed, results, all_results, sessions, used,
                   notMain>>

Ended(i) == wpc[i] \in {"returned", "raised"}

\* line 83: results.get() waits for every invocation and re-raises the
\* exception of one that raised
MainResultsGet ==
    /\ mainpc = "get"
    /\ \A i \in Invocations : Ended(i)
    /\ IF \E i \in Invocations : wpc[i] = "raised"
         THEN mainpc' = "failed" /\ results' = results
         ELSE mainpc' = "write" /\ results' = [i \in Invocations |-> wresults[i]]
    /\ UNCHANGED <<partial_tasks, chunks, wpc, widx, wsession, wresults,
                   progress_queue, completed, all_results, sessions, used,
                   notMain>>

\* lines 87-93
MainWrite ==
    /\ mainpc = "write"
    /\ all_results' = [k \in 1..Len(Flatten(results)) |-> JsonLoads(Flatten(results)[k])]
    /\ mainpc' = "done"
    /\ UNCHANGED <<partial_tasks, chunks, wpc, widx, wsession, wresults,
                   progress_queue, completed, results, sessions, used,
                   notMain>>

(***************************************************************************)
(* main.py: process_chunk, one invocation per slice, at most NUM_PROCESSES *)
(* of them running.                                                        *)
(***************************************************************************)
Running == {i \in Invocations : wpc[i] \in {"loop", "put"}}

\* a worker that resolves on the scraper's own session
process_chunk_session_shared(i) ==
    [id |-> ScraperSession(i), state |-> sessions[ScraperSession(i)]]

\* the session process_chunk resolves its items with (line 13)
process_chunk_session(i) == clone_session(i)

\* lines 11-20
WorkerStart(i) ==
    /\ mainpc \in {"progress", "get"}
    /\ wpc[i] = "queued"
    /\ Cardinality(Running) < NUM_PROCESSES
    /\ LET s == process_chunk_session(i)
       IN /\ wsession' = [wsession EXCEPT ![i] = s.id]
          /\ sessions' = [x \in DOMAIN sessions \cup {s.id} |->
                             IF x = s.id THEN s.state ELSE sessions[x]]
          /\ used' = [x \in DOMAIN used \cup {s.id} |->
                             IF x \in DOMAIN used THEN used[x] ELSE {}]
    /\ wresults' = [wresults EXCEPT ![i] = <<>>]
    /\ widx' = [widx EXCEPT ![i] = 1]
    /\ wpc' = [wpc EXCEPT ![i] = "loop"]
    /\ UNCHANGED <<mainpc, partial_tasks, chunks, progress_queue, completed,
                   results, all_results,
                   notMain>>

\* a handler that drops the failed item instead of recording it
ItemAppends_swallow(task) ==
    {<<JsonDumps(ResolveReturns(task))>>} \cup {<<>>}

\* a handler whose error record is keyed by the slice's first item
ItemAppends_unkeyed(task) ==
    {<<JsonDumps(ResolveReturns(task))>>} \cup
    {<<JsonDumps(ErrorRecord(e, "t1"))>> : e \in ResolveErrors}

\* what one turn of the for loop appends to results for an item (lines
\* 23-28): the Task's JSON, or the error record of the Exception
ItemAppends(task) ==
    {<<JsonDumps(ResolveReturns(task))>>} \cup
    {<<JsonDumps(ErrorRecord(e, task.task_id))>> : e \in ResolveErrors}

\* lines 22-28: resolve the item on the invocation's session; an Exception
\* becomes an error record
WorkerResolve(i) ==
    /\ wpc[i] = "loop"
    /\ widx[i] <= Len(chunks[i])
    /\ \E r \in ItemAppends(chunks[i][widx[i]]) :
          wresults' = [wresults EXCEPT ![i] = @ \o r]
    /\ used' = [used EXCEPT ![wsession[i]] = @ \cup {i}]
    /\ wpc' = [wpc EXCEPT ![i] = "put"]
    /\ UNCHANGED <<mainpc, partial_tasks, chunks, widx, wsession, progress_queue,
                   completed, results, all_results, sessions,
                   notMain>>

\* line 29
WorkerPut(i) ==
    /\ wpc[i] = "put"
    /\ progress_queue' = progress_queue + 1
    /\ widx' = [widx EXCEPT ![i] = @ + 1]
    /\ wpc' = [wpc EXCEPT ![i] = "loop"]
    /\ UNCHANGED <<mainpc, partial_tasks, chunks, wsession, wresults, completed,
                   results, all_results, sessions, used,
                   notMain>>

\* lines 22, 31: the loop is over
WorkerReturn(i) ==
    /\ wpc[i] = "loop"
    /\ widx[i] > Len(chunks[i])
    /\ wpc' = [wpc EXCEPT ![i] = "returned"]
    /\ UNCHANGED <<mainpc, partial_tasks, chunks, widx, wsession, wresults,
                   progress_queue, completed, results, all_results, sessions, used,
                   notMain>>

\* lines 13-20 and 29 stand outside the try: an exception there (the
\* manager's queue proxy failing in put, the progress bar, clone_session)
\* ends the invocation, and map_async keeps it for results.get()
WorkerRaise(i) ==
    /\ mainpc \in {"progress", "get"}
    /\ wpc[i] \in {"queued", "put"}
    /\ wpc' = [wpc EXCEPT ![i] = "raised"]
    /\ UNCHANGED <<mainpc, partial_tasks, chunks, widx, wsession, wresults,
                   progress_queue, completed, results, all_results, sessions, used,
                   notMain>>

MainNext ==
    \/ MainChunk
    \/ MainDispatch
    \/ MainProgressGet
    \/ MainProgressDone
    \/ MainResultsGet
    \/ MainWrite
    \/ \E i \in Invocations : WorkerStart(i)
    \/ \E i \in Invocations : WorkerResolve(i)
    \/ \E i \in Invocations : WorkerPut(i)
    \/ \E i \in Invocations : WorkerReturn(i)
    \/ \E i \in Invocations : WorkerRaise(i)

(***************************************************************************)
(* main.py: one call of process_chunk, for every slice it can be given.    *)
(***************************************************************************)
\* most items of the slice
MaxSlice == 3

\* the pool calls process_chunk((chunk, scraper, progress_queue)): the
\* state of main() after map_async, seen from the invocation of one slice
WorkerInit ==
    /\ mainpc = "progress"
    /\ partial_tasks \in SeqsUpTo(Descriptors, MaxSlice) \ {<<>>}
    /\ chunks = <<partial_tasks>>
    /\ wpc = <<"queued">>
    /\ widx = <<0>>
    /\ wsession = << <<>> >>
    /\ wresults = << <<>> >>
    /\ progress_queue = 0
    /\ completed = 0
    /\ results = <<>>
    /\ all_results = <<>>
    /\ sessions = [s \in {ScraperSession(Main), ScraperSession(1)} |-> LoggedIn]
    /\ used = [s \in {ScraperSession(Main), ScraperSession(1)} |->
                  IF s = ScraperSession(Main) THEN {Main} ELSE {}]

WorkerNext ==
    \/ \E i \in Invocations : WorkerStart(i)
    \/ \E i \in Invocations : WorkerResolve(i)
    \/ \E i \in Invocations : WorkerPut(i)
    \/ \E i \in Invocations : WorkerReturn(i)
    \/ \E i \in Invocations : WorkerRaise(i)

\* main() is not running
MainOff ==
    /\ mainpc = "off"
    /\ partial_tasks = <<>>
    /\ chunks = <<>>
    /\ wpc = <<>>
    /\ widx = <<>>
    /\ wsession = <<>>
    /\ wresults = <<>>
    /\ progress_queue = 0
    /\ completed = 0
    /\ results = <<>>
    /\ all_results = <<>>
    /\ sessions = <<>>
    /\ used = <<>>

(***************************************************************************)
(* main.py lines 57-62 on lists as long as twice the pool: the list        *)
(* comprehension, one slice a step.                                        *)
(***************************************************************************)
\* the descriptor of the k-th well-formed catalog row
NthDescriptor(k) == PartialTask(<<"A+B">>, <<"SUM">>, k, "https://cedt-grader.nattee.net/get_statement")

ChunkOff == cpc = "off" /\ clist = <<>> /\ ci = 0 /\ cchunks = <<>>

\* line 57, and range()'s first value
ChunkInit ==
    /\ cpc = "slicing"
    /\ \E n \in 0..MaxList : clist = [k \in 1..n |-> NthDescriptor(k)]
    /\ ci = 0
    /\ cchunks = <<>>

\* lines 59-62, one turn: partial_tasks[i : i + chunk_size]
ChunkTurn ==
    /\ cpc = "slicing"
    /\ ci < Len(clist)
    /\ cchunks' = Append(cchunks, Slice(clist, ci, ci + ChunkSize(clist)))
    /\ ci' = ci + ChunkSize(clist)
    /\ UNCHANGED <<cpc, clist, notChunk>>

\* line 61: range() is exhausted
ChunkEnd ==
    /\ cpc = "slicing"
    /\ ~(ci < Len(clist))
    /\ cpc' = "built"
    /\ UNCHANGED <<clist, ci, cchunks, notChunk>>

ChunkNext == ChunkTurn \/ ChunkEnd

(***************************************************************************)
(* scraper.py: the Task Catalog Extractor.  Texts are sequences of         *)
(* characters.  A function that can raise returns [ok |-> TRUE, val |-> v] *)
(* or [ok |-> FALSE, exc |-> the exception's class, msg |-> its message].  *)
(***************************************************************************)
Return(v) == [ok |-> TRUE, val |-> v]
\* an exception whose message is built from a text and a value
RaiseWith(e, m, v) == [ok |-> FALSE, exc |-> e, msg |-> m, arg |-> v]
Raise(e, m) == RaiseWith(e, m, <<>>)

\* constants.py:3
DEFAULT_ROOT_URL == <<"https://cedt-grader.nattee.net">>

\* Python's None where a text (a sequence of characters) can stand
None == <<"None">>

Digits == {"0", "1", "2", "3", "4", "5", "6", "7", "8", "9"}
\* characters str.isdigit() accepts that are no decimal digit
OtherDigits == {"SUPERSCRIPT TWO"}

\* str.isdigit(): not empty and every character a digit
isdigit(text) == text # <<>> /\ \A k \in 1..Len(text) : text[k] \in Digits \cup OtherDigits

DigitValue(c) == CHOOSE v \in 0..9 : <<"0", "1", "2", "3", "4", "5", "6", "7", "8", "9">>[v + 1] = c

RECURSIVE DecimalValue(_)
DecimalValue(text) ==
    IF text = <<>> THEN 0
    ELSE 10 * DecimalValue(SubSeq(text, 1, Len(text) - 1)) + DigitValue(text[Len(text)])

\* int(text) of a text isdigit() accepted: a ValueError on a digit that is
\* not decimal
int(text) ==
    IF \A k \in 1..Len(text) : text[k] \in Digits
    THEN Return(DecimalValue(text))
    ELSE Raise("ValueError", "invalid literal for int()")

\* lines 407-418; index_div is None or the text of the column's first div
extract_index(index_div) ==
    IF index_div = None \/ ~isdigit(index_div)
    THEN Raise("ValueError", "Task index element is missing or invalid.")
    ELSE IF int(index_div).ok THEN Return(int(index_div).val - 1) ELSE int(index_div)

\* str.lstrip("/")
RECURSIVE lstrip_slash(_)
lstrip_slash(text) ==
    IF text # <<>> /\ Head(text) = "/" THEN lstrip_slash(Tail(text)) ELSE text

\* lines 420-445; name, nickname: None or the element's text; href: None
\* (no link with get_statement in its href) or the href
extract_task_info(info) ==
    IF info.name = None \/ info.nickname = None
    THEN Raise("ValueError", "Task name or nickname element is missing.")
    ELSE IF info.href = None \/ info.href = <<>>
    THEN Raise("ValueError", "PDF URL is missing or invalid.")
    ELSE Return([task_name |-> info.name, task_nickname |-> info.nickname,
                 pdf_url |-> DEFAULT_ROOT_URL \o <<"/">> \o lstrip_slash(info.href)])

\* TypeAdapter(HttpUrl).validate_python: a URL with an http(s) scheme and a
\* host, else a ValidationError (a ValueError)
validate_http_url(url) ==
    IF url # <<>> /\ Head(url) \in {"https://cedt-grader.nattee.net", "http://cedt-grader.nattee.net"}
    THEN Return(url)
    ELSE Raise("ValueError", "URL scheme should be 'http' or 'https'")

\* a Python list subscript: negative indices count from the end
Subscript(list, index) ==
    IF 0 <= index /\ index < Len(list) THEN Return(list[index + 1])
    ELSE IF index < 0 /\ -index <= Len(list) THEN Return(list[Len(list) + index + 1])
    ELSE Raise("IndexError", "list index out of range")

\* lines 317-342
process_task_row(task_row, ids) ==
    IF task_row.ncols # 6
    THEN RaiseWith("ValueError", "Unexpected number of columns", <<task_row.ncols>>)
    ELSE LET index == extract_index(task_row.index_div)
             info == extract_task_info(task_row)
         IN IF ~index.ok THEN index
            ELSE IF ~info.ok THEN info
            ELSE LET id == Subscript(ids, index.val)
                     url == validate_http_url(info.val.pdf_url)
                 IN IF ~id.ok THEN id
                    ELSE IF ~url.ok THEN url
                    ELSE Return(PartialTask(info.val.task_name, info.val.task_nickname,
                                            id.val, url.val))

\* the truth value of an option's value attribute
Truthy(v) == v # None /\ v # <<>>

\* lines 345-365: the values of the options after the first
get_tasks_id(p) ==
    IF ~p.selector THEN Raise("ScrapingError", "Task ID selector not found.")
    ELSE Return(SelectSeq(Slice(p.options, 1, Len(p.options)), Truthy))

(***************************************************************************)
(* The landing pages of the catalog specification.                         *)
(***************************************************************************)
\* most rows of a page's table
MaxRows == 2

Row(n, idx, nm, nick, link) ==
    [ncols |-> n, index_div |-> idx, name |-> nm, nickname |-> nick, href |-> link]

IndexTexts == {<<"0">>, <<"1">>, <<"2">>, <<"3">>, <<"0", "2">>, <<"x">>, <<" ", "1">>,
               <<"SUPERSCRIPT TWO">>, <<>>}

Rows ==
    {Row(6, t, <<"A+B">>, <<"SUM">>, <<"/", "get_statement/42">>) : t \in IndexTexts \cup {None}}
    \cup {Row(n, <<"1">>, <<"A+B">>, <<"SUM">>, <<"/", "get_statement/42">>) : n \in {5, 7}}
    \cup {Row(6, <<"2">>, <<"A-B">>, <<"DIFF">>, <<"get_statement/43">>),
          Row(6, <<"1">>, None, <<"SUM">>, <<"/", "get_statement/42">>),
          Row(6, <<"1">>, <<"A+B">>, None, <<"/", "get_statement/42">>),
          Row(6, <<"1">>, <<"A+B">>, <<"SUM">>, None)}

OptionLists == {<<>>, <<<<>>>>, <<<<>>, <<"task_42">>>>, <<<<>>, <<"task_42">>, <<"task_43">>>>,
                <<<<>>, <<>>, <<"task_43">>>>, <<<<>>, <<"task_42">>, None, <<"task_44">>>>}

Pages ==
    {[main_table |-> TRUE, tbody |-> TRUE, selector |-> TRUE, rows |-> r, options |-> o] :
        r \in SeqsUpTo(Rows, MaxRows), o \in OptionLists}
    \cup {[main_table |-> FALSE, tbody |-> FALSE, selector |-> TRUE, rows |-> <<>>, options |-> <<<<>>>>],
          [main_table |-> TRUE, tbody |-> FALSE, selector |-> TRUE, rows |-> <<>>, options |-> <<<<>>>>],
          [main_table |-> TRUE, tbody |-> TRUE, selector |-> FALSE, rows |-> <<>>, options |-> <<>>]}

CatOff ==
    /\ catpc = "off" /\ page = <<>> /\ tasks_id = <<>> /\ ri = 0
    /\ tasks = <<>> /\ log = <<>> /\ caterr = ""

\* __init__ line 40 after __setup_login returned the landing page
CatInit ==
    /\ catpc = "locate"
    /\ page \in Pages
    /\ tasks_id = <<>>
    /\ ri = 0
    /\ tasks = <<>>
    /\ log = <<>>
    /\ caterr = ""

\* lines 117-128
CatLocate ==
    /\ catpc = "locate"
    /\ IF ~page.main_table
         THEN catpc' = "raised" /\ caterr' = "ScrapingError" /\ UNCHANGED <<tasks_id, ri>>
       ELSE IF ~page.tbody
         THEN catpc' = "raised" /\ caterr' = "ScrapingError" /\ UNCHANGED <<tasks_id, ri>>
       ELSE IF ~get_tasks_id(page).ok
         THEN catpc' = "raised" /\ caterr' = get_tasks_id(page).exc /\ UNCHANGED <<tasks_id, ri>>
       ELSE /\ tasks_id' = get_tasks_id(page).val
            /\ ri' = 1
            /\ catpc' = "rows"
            /\ caterr' = caterr
    /\ UNCHANGED <<page, tasks, log, notCat>>

\* the exceptions the loop's except clause names (line 133)
CaughtInLoop == {"ValueError", "TypeError"}

\* lines 130-134, one row
CatRow ==
    /\ catpc = "rows"
    /\ ri <= Len(page.rows)
    /\ LET r == process_task_row(page.rows[ri], tasks_id)
       IN IF r.ok
            THEN tasks' = Append(tasks, r.val) /\ ri' = ri + 1
                 /\ UNCHANGED <<catpc, log, caterr>>
          ELSE IF r.exc \in CaughtInLoop
            THEN log' = Append(log, ri) /\ ri' = ri + 1
                 /\ UNCHANGED <<catpc, tasks, caterr>>
          ELSE catpc' = "raised" /\ caterr' = r.exc
               /\ UNCHANGED <<ri, tasks, log>>
    /\ UNCHANGED <<page, tasks_id, notCat>>

\* line 136
CatReturn ==
    /\ catpc = "rows"
    /\ ri > Len(page.rows)
    /\ catpc' = "done"
    /\ UNCHANGED <<page, tasks_id, ri, tasks, log, caterr, notCat>>

CatNext == CatLocate \/ CatRow \/ CatReturn

(***************************************************************************)
(* scraper.py: _clean_scraped_code, on texts as sequences of characters.   *)
(***************************************************************************)
\* the characters str.strip() removes
Whitespace == {" ", "\t", "\n", "\r", "\f"}

RECURSIVE lstrip(_)
lstrip(text) == IF text # <<>> /\ Head(text) \in Whitespace THEN lstrip(Tail(text)) ELSE text

RECURSIVE rstrip(_)
rstrip(text) ==
    IF text # <<>> /\ text[Len(text)] \in Whitespace
    THEN rstrip(SubSeq(text, 1, Len(text) - 1)) ELSE text

\* str.strip()
strip(text) == rstrip(lstrip(text))

\* str.removesuffix(suffix): at most one occurrence, at the end
removesuffix(text, suffix) ==
    IF Len(text) >= Len(suffix) /\ SubSeq(text, Len(text) - Len(suffix) + 1, Len(text)) = suffix
    THEN SubSeq(text, 1, Len(text) - Len(suffix)) ELSE text

\* str.removeprefix(prefix)
removeprefix(text, prefix) ==
    IF Len(text) >= Len(prefix) /\ SubSeq(text, 1, Len(prefix)) = prefix
    THEN SubSeq(text, Len(prefix) + 1, Len(text)) ELSE text

\* str.replace(c, "") for a character c
remove_char(text, c) == SelectSeq(text, LAMBDA x : x # c)

\* the HTML newline entity of line 455
NewlineEntity == <<"&", "#", "x", "0", "0", "0", "A", ";">>

\* line 455
clean_scraped_code(code) ==
    strip(remove_char(removesuffix(strip(code), NewlineEntity), "\r"))

\* most parts a raw code text of the cleaning specification is made of
MaxParts == 3

CodeParts == {<<"a">>, <<" ">>, <<"\r">>, <<"\n">>, NewlineEntity,
              <<"&", "#", "x", "0">>, <<"0", "0", "A", ";">>}

RawCodes == {Flatten(ps) : ps \in SeqsUpTo(CodeParts, MaxParts)}

CleanOff == clpc = "off" /\ raw = <<>> /\ once = <<>> /\ twice = <<>>

\* lines 152-158: the text of the first textarea match
CleanInit == clpc = "raw" /\ raw \in RawCodes /\ once = <<>> /\ twice = <<>>

\* line 159
CleanOnce ==
    /\ clpc = "raw"
    /\ once' = clean_scraped_code(raw)
    /\ clpc' = "once"
    /\ UNCHANGED <<raw, twice, notClean>>

\* the cleaning applied to its own result
CleanTwice ==
    /\ clpc = "once"
    /\ twice' = clean_scraped_code(once)
    /\ clpc' = "twice"
    /\ UNCHANGED <<raw, once, notClean>>

CleanNext == CleanOnce \/ CleanTwice

(***************************************************************************)
(* scraper.py: the Submission Extractor.  A submission page is what the    *)
(* patterns and selectors of _scrape_submission find in it: a field is     *)
(* None when the element is not there.                                     *)
(***************************************************************************)
\* models.py:11-24, get_args(Language)
Language == {<<"C">>, <<"C++">>, <<"Pascal">>, <<"Java">>, <<"Ruby">>, <<"Python">>,
             <<"Haskell">>, <<"Digital">>, <<"PHP">>, <<"Rust">>, <<"Go">>, <<"PostgreSQL">>}

\* str.strip(chars)
RECURSIVE strip_chars(_, _)
strip_chars(text, chars) ==
    IF text # <<>> /\ Head(text) \in chars THEN strip_chars(Tail(text), chars)
    ELSE IF text # <<>> /\ text[Len(text)] \in chars
    THEN strip_chars(SubSeq(text, 1, Len(text) - 1), chars)
    ELSE text

\* str.split(sep) for a character sep: the pieces between the separators
RECURSIVE split(_, _)
split(text, sep) ==
    IF \A k \in 1..Len(text) : text[k] # sep THEN <<text>>
    ELSE LET k == CHOOSE j \in 1..Len(text) :
                      text[j] = sep /\ \A i \in 1..(j - 1) : text[i] # sep
         IN <<SubSeq(text, 1, k - 1)>> \o split(SubSeq(text, k + 1, Len(text)), sep)

\* float(text) of a decimal literal: the digits and the number of digits
\* after the point; a ValueError otherwise
float(text) ==
    LET parts == split(text, ".")
        whole == parts[1]
        frac == IF Len(parts) = 2 THEN parts[2] ELSE <<>>
    IN IF /\ Len(parts) <= 2
          /\ whole \o frac # <<>>
          /\ \A k \in 1..Len(whole \o frac) : (whole \o frac)[k] \in Digits
       THEN Return([digits |-> DecimalValue(whole \o frac), scale |-> Len(frac)])
       ELSE Raise("ValueError", "could not convert string to float")

\* int(text) of any text
int_of(text) ==
    IF text # <<>> /\ \A k \in 1..Len(text) : text[k] \in Digits
    THEN Return(DecimalValue(text))
    ELSE Raise("ValueError", "invalid literal for int()")

\* the dates strptime reads with "%B %d, %Y %H:%M", each one character of
\* the model's texts
Dates == {"January 5, 2024 10:30"}

strptime(text) ==
    IF Len(text) = 1 /\ text[1] \in Dates THEN Return(text[1])
    ELSE Raise("ValueError", "time data does not match format")

RedactionMarker == <<"-- REDACTED --">>

\* lines 179-194: the author
scrape_user(p) ==
    IF p.user_own = None THEN Raise("ScrapingError", "Failed to find User element")
    ELSE LET user_name == strip(p.user_own)
         IN IF user_name = RedactionMarker THEN Return(<<>>)
            ELSE IF ~p.user_a THEN Raise("ScrapingError", "Failed to find user link")
            ELSE IF p.user_href = None THEN Raise("ScrapingError", "Invalid user ID format")
            ELSE LET pieces == split(strip(p.user_href), "/")
                     user_id == Subscript(pieces, -2)
                 IN IF ~user_id.ok THEN user_id
                    ELSE Return(<<[user_name |-> user_name, user_id |-> user_id.val,
                                   student_id |-> p.user_a_text]>>)

\* lines 203, 211-219: a number in the span of a labelled cell
scrape_span(field, label, convert(_)) ==
    IF field = None THEN RaiseWith("ScrapingError", "Failed to find element", <<label>>)
    ELSE IF field = <<"no span">> THEN RaiseWith("ScrapingError", "Failed to find span", <<label>>)
    ELSE convert(strip(field))

\* lines 222-229
scrape_graded(p) ==
    IF p.graded = None THEN Raise("ScrapingError", "Failed to find Graded element")
    ELSE LET graded_text == strip(p.graded)
             pieces == split(graded_text, "(")
             date == strip(removeprefix(strip_chars(pieces[Len(pieces)], {"(", ")", " "}), <<"at">>))
         IN IF strptime(date).ok THEN strptime(date)
            ELSE RaiseWith("ScrapingError", "Failed to parse submission date", graded_text)

\* lines 139-240
scrape_submission(p, submission_id) ==
    IF p.textarea = None
    THEN RaiseWith("ScrapingError", "No content found in <textarea> for submission ID", submission_id)
    ELSE LET code == clean_scraped_code(p.textarea)
             user == scrape_user(p)
             score == IF p.points = None
                      THEN Raise("ScrapingError", "Failed to find Points element")
                      ELSE float(strip(split(p.points, "/")[1]))
             runtime == scrape_span(p.runtime, "Runtime", float)
             memory == scrape_span(p.memory, "Memory", int_of)
             graded == scrape_graded(p)
         IN IF ~user.ok THEN user
            ELSE IF p.h2 = None THEN Raise("ScrapingError", "Failed to find task ID")
            ELSE IF ~score.ok THEN score
            ELSE IF p.language = None THEN Raise("ScrapingError", "Failed to find Language element")
            ELSE IF strip(p.language) \notin Language
            THEN RaiseWith("ScrapingError", "Language not registered", strip(p.language))
            ELSE IF ~runtime.ok THEN runtime
            ELSE IF ~memory.ok THEN memory
            ELSE IF ~graded.ok THEN graded
            ELSE Return([cls |-> "Submissions",
                         user |-> user.val,
                         task_id |-> strip(split(p.h2, ":")[Len(split(p.h2, ":"))]),
                         score |-> score.val,
                         code |-> code,
                         language |-> strip(p.language),
                         runtime |-> runtime.val,
                         memory |-> memory.val,
                         graded |-> graded.val])

(***************************************************************************)
(* The submission pages of the site the model resolves against.            *)
(***************************************************************************)
SubmissionPage(code, lang, own) ==
    [textarea |-> code,
     user_own |-> own, user_a |-> TRUE,
     user_href |-> <<"/", "users", "/", "21", "/">>, user_a_text |-> <<"6530000021">>,
     h2 |-> <<"Task", ":", " ", "sum">>,
     points |-> <<"8", "7", ".", "5", "/", "1", "0", "0">>,
     language |-> lang,
     runtime |-> <<"0", ".", "0", "0", "4">>,
     memory |-> <<"1", "2", "8">>,
     graded |-> <<"5 minutes ago", " ", "(", "at", " ", "January 5, 2024 10:30", ")">>]

NoSubmissionPage == [SubmissionPage(None, None, None) EXCEPT
                        !.user_a = FALSE, !.user_href = None, !.h2 = None, !.points = None,
                        !.runtime = None, !.memory = None, !.graded = None]

\* submission id -> the page GET /submissions/<id> answers with
SitePage(submission_id) ==
    CASE submission_id = <<"1", "0", "1">> ->
            SubmissionPage(<<"\n", "a", "\r", "\n", "b", "\n">> \o NewlineEntity,
                           <<"C++">>, <<"Alice", " ">>)
      [] submission_id = <<"1", "0", "2">> ->
            SubmissionPage(<<"b", "<", "a", ">">>, <<" ", "C++", "\n">>, <<"Bob">>)
      [] submission_id = <<"1", "0", "3">> ->
            SubmissionPage(<<"c">>, <<"Python">>, RedactionMarker)
      [] submission_id = <<"1", "0", "4">> ->
            SubmissionPage(<<"d", ";">>, <<"C">>, <<"Alice">>)
      [] submission_id = <<"1", "0", "5">> ->
            SubmissionPage(<<"e">>, <<"Kotlin">>, <<"Alice">>)
      [] submission_id = <<"1", "0", "6">> ->
            [SubmissionPage(<<"f">>, <<"C++">>, <<"Alice">>) EXCEPT !.graded = <<"(", "at", " ", "yesterday", ")">>]
      [] OTHER -> NoSubmissionPage

(***************************************************************************)
(* One call of _scrape_submission on a submission page.                    *)
(***************************************************************************)
\* the own texts of the User value cell
UserOwnTexts == {<<"Alice">>, <<"Alice", " ">>, <<"\n", "Bob", "\n">>,
                 RedactionMarker, <<" ">> \o RedactionMarker \o <<"\n">>, None}

\* the href attributes of the profile link
UserHrefs == {<<"/", "users", "/", "21", "/">>,
              <<"/", "users", "/", "21">>,
              <<" ", "/", "users", "/", "7", "/", "\n">>,
              <<"https:", "/", "/", "host", "/", "users", "/", "21", "/">>,
              <<"21">>,
              None}

\* the pages a GET of a submission can answer with
UserPages ==
    {[SubmissionPage(code, lang, own) EXCEPT !.user_a = a, !.user_href = href] :
        code \in {<<"a", "\n">>, None}, lang \in {<<"C++">>, <<"Kotlin">>},
        own \in UserOwnTexts, a \in BOOLEAN, href \in UserHrefs}

SubOff == subpc = "off" /\ subpage = <<>> /\ subresult = <<>>

\* line 149: the response of the GET
SubInit == subpc = "page" /\ subpage \in UserPages /\ subresult = <<>>

\* what the call ends with
SubEnd(r) ==
    /\ subpc' = IF r.ok THEN "returned" ELSE "raised"
    /\ subresult' = r

\* lines 152-240
SubScrape ==
    /\ subpc = "page"
    /\ SubEnd(scrape_submission(subpage, <<"1", "0", "1">>))
    /\ UNCHANGED <<subpage, notSub>>

SubNext == SubScrape

(***************************************************************************)
(* The Hall-of-Fame Resolver (scraper.py _scrape_hall_of_fame and          *)
(* models.py PartialTask.__scrape_hall_of_fame), the Test-Case Extractor   *)
(* and PartialTask.resolve.                                                *)
(***************************************************************************)
\* a Python str as a value handed to a pydantic model
Str(text) == [cls |-> "str", text |-> text]

\* models.py:45-51: HallOfFame(...) validates that its four fields are str
HallOfFame(best_runtime, best_memory, shortest_code, first_solver) ==
    IF \A v \in {best_runtime, best_memory, shortest_code, first_solver} : v.cls = "str"
    THEN Return([best_runtime |-> best_runtime.text, best_memory |-> best_memory.text,
                 shortest_code |-> shortest_code.text, first_solver |-> first_solver.text])
    ELSE Raise("ValidationError", "Input should be a valid string")

\* links[k].get_text(strip=True).strip("()").removeprefix("#") of the k-th
\* link (k from 0), and the submission it resolves to
LinkedSubmission(links, k) ==
    LET link == Subscript(links, k)
    IN IF ~link.ok THEN link
       ELSE LET submission_id == removeprefix(strip_chars(strip(link.val), {"(", ")"}), <<"#">>)
            IN scrape_submission(SitePage(submission_id), submission_id)

\* the keyword arguments are evaluated in their order: the first exception wins
AllOrFirstRaise(subs) ==
    IF \E k \in 1..4 : ~subs[k].ok
    THEN subs[CHOOSE k \in 1..4 : ~subs[k].ok /\ \A j \in 1..(k - 1) : subs[j].ok]
    ELSE Return([k \in 1..4 |-> subs[k].val])

\* the submissions behind links[0] .. links[3]
FourSubmissions(links) ==
    AllOrFirstRaise([k \in 1..4 |-> LinkedSubmission(links, k - 1)])

\* models.py lines 122-135: the entry is built from the submissions themselves
entry_of_submissions(subs) ==
    IF ~subs.ok THEN subs ELSE HallOfFame(subs.val[1], subs.val[2], subs.val[3], subs.val[4])

\* scraper.py lines 301-314: the entry keeps each submission's code
entry_of_codes(subs) ==
    IF ~subs.ok THEN subs
    ELSE HallOfFame(Str(subs.val[1].code), Str(subs.val[2].code),
                    Str(subs.val[3].code), Str(subs.val[4].code))

\* hall_of_fame[language] = HallOfFame(...)
keyed(language, entry) ==
    IF ~entry.ok THEN entry ELSE Return([language |-> language, entry |-> entry.val])

\* scraper.py lines 295-299
check_language(language, outcome) ==
    IF language \notin Language
    THEN RaiseWith("ScrapingError", "The language is not registered in the Language type", language)
    ELSE outcome

\* scraper.py lines 284-314, one row
scraper_hof_row(row) ==
    IF ~row.td
    THEN Raise("ScrapingError", "Expected a valid HTML tag for the language field")
    ELSE check_language(strip(row.language),
                        keyed(strip(row.language), entry_of_codes(FourSubmissions(row.links))))

\* models.py lines 113-135, one row
models_hof_row(row) ==
    IF ~row.td
    THEN Raise("ScrapingError", "nono")
    ELSE keyed(strip(row.language), entry_of_submissions(FourSubmissions(row.links)))

\* textareas[start::2]
EveryOther(s, start) == [k \in 1..((Len(s) - start + 1) \div 2) |-> s[start + 2 * (k - 1) + 1]]

\* zip(inputs, outputs) into TestCase records
ZipTestCases(inputs, outputs) ==
    [k \in 1..Min(Len(inputs), Len(outputs)) |-> [input |-> inputs[k], output |-> outputs[k]]]

\* a pairing that takes the outputs one block late
scrape_test_cases_shifted(textareas) ==
    ZipTestCases(EveryOther(textareas, 0), EveryOther(textareas, 2))

\* scraper.py lines 253-261 and models.py lines 90-98 (the same code)
scrape_test_cases(textareas) ==
    ZipTestCases(EveryOther(textareas, 0), EveryOther(textareas, 1))

\* models.py:54-62, Task(...)
Task(d, hall_of_fame, test_cases) ==
    [task_name |-> d.task_name, task_nickname |-> d.task_nickname, task_id |-> d.task_id,
     pdf_url |-> d.pdf_url, hall_of_fame |-> hall_of_fame, test_cases |-> test_cases]

(***************************************************************************)
(* The pages of the resolver specification.                                *)
(***************************************************************************)
\* most rows of a hall-of-fame table after its header row
MaxHofRows == 2
\* most textarea blocks of a test-case page
MaxBlocks == 4

Link(id) == <<"(", "#">> \o id \o <<")">>

LinkLists ==
    {<<Link(<<"1", "0", "1">>), Link(<<"1", "0", "2">>), Link(<<"1", "0", "3">>), Link(<<"1", "0", "4">>)>>,
     <<Link(<<"1", "0", "4">>), Link(<<"1", "0", "3">>), Link(<<"1", "0", "2">>), Link(<<"1", "0", "1">>), Link(<<"9">>)>>,
     <<Link(<<"1", "0", "1">>), Link(<<"1", "0", "2">>)>>,
     <<Link(<<"1", "0", "1">>), Link(<<"9">>), Link(<<"1", "0", "3">>), Link(<<"1", "0", "4">>)>>,
     <<Link(<<"1", "0", "5">>), Link(<<"1", "0", "5">>), Link(<<"1", "0", "5">>), Link(<<"1", "0", "5">>)>>,
     <<>>}

HofRows ==
    {[td |-> TRUE, language |-> l, links |-> ls] :
        l \in {<<"C++">>, <<" ", "Python">>, <<"Kotlin">>}, ls \in LinkLists}
    \cup {[td |-> FALSE, language |-> None, links |-> <<>>]}

HeaderRow == [td |-> FALSE, language |-> None, links |-> <<>>]

\* tables: the number of table.table-hover elements; rows: the tbody rows of
\* the last of them
HofPages ==
    {[tables |-> 1, rows |-> <<HeaderRow>> \o rs] : rs \in SeqsUpTo(HofRows, MaxHofRows)}
    \cup {[tables |-> 1, rows |-> <<>>], [tables |-> 0, rows |-> <<>>]}

EmptyHofPage == [tables |-> 1, rows |-> <<HeaderRow>>]

TcPages == SeqsUpTo({<<"1", " ", "2">>, <<"3">>}, MaxBlocks)

\* the descriptor resolved
TheDescriptor ==
    PartialTask(<<"A+B">>, <<"SUM">>, <<"task_42">>,
                DEFAULT_ROOT_URL \o <<"/", "get_statement/42">>)

ResOff ==
    /\ rpc = "off" /\ rpath = "" /\ hof_page = <<>> /\ tc_page = <<>> /\ hof_i = 0
    /\ fame = <<>> /\ rresult = <<>> /\ rerr = <<>>

\* a call of get_hall_of_fame, get_test_cases or resolve
ResInit ==
    /\ \/ rpath = "get_test_cases" /\ rpc = "tc"
          /\ hof_page = EmptyHofPage /\ tc_page \in TcPages
       \/ rpath = "get_hall_of_fame" /\ rpc = "hof"
          /\ hof_page \in HofPages /\ tc_page = <<>>
       \/ rpath = "resolve" /\ rpc = "hof"
          /\ \/ hof_page \in HofPages /\ tc_page \in {<<>>, <<<<"3">>, <<"1", " ", "2">>, <<"3">>>>}
             \/ hof_page = EmptyHofPage /\ tc_page \in TcPages
    /\ hof_i = 0
    /\ fame = <<>>
    /\ rresult = <<>>
    /\ rerr = <<>>

\* scraper.py lines 276-283, models.py lines 105-112
HofOpen ==
    /\ rpc = "hof"
    /\ IF hof_page.tables = 0
         THEN rpc' = "raised" /\ rerr' = Raise("IndexError", "list index out of range")
              /\ hof_i' = hof_i
         ELSE rpc' = "rows" /\ hof_i' = 2 /\ rerr' = rerr
    /\ fame' = <<>>
    /\ UNCHANGED <<rpath, hof_page, tc_page, rresult, notRes>>

\* the row code of the entry point
hof_row(path, row) ==
    IF path = "get_hall_of_fame" THEN scraper_hof_row(row) ELSE models_hof_row(row)

\* the end of one turn of the for loop: the entry is stored or the exception
\* leaves the function
HofStore(r) ==
    IF r.ok
    THEN /\ fame' = [l \in DOMAIN fame \cup {r.val.language} |->
                        IF l = r.val.language THEN r.val.entry ELSE fame[l]]
         /\ hof_i' = hof_i + 1
         /\ UNCHANGED <<rpc, rerr>>
    ELSE /\ rpc' = "raised"
         /\ rerr' = r
         /\ UNCHANGED <<fame, hof_i>>

\* one turn of the for loop over rows[1:]
HofRow ==
    /\ rpc = "rows"
    /\ hof_i <= Len(hof_page.rows)
    /\ HofStore(hof_row(rpath, hof_page.rows[hof_i]))
    /\ UNCHANGED <<rpath, hof_page, tc_page, rresult, notRes>>

\* scraper.py line 315, models.py line 136
HofReturn ==
    /\ rpc = "rows"
    /\ hof_i > Len(hof_page.rows)
    /\ IF rpath = "get_hall_of_fame"
         THEN rpc' = "returned" /\ rresult' = fame
         ELSE rpc' = "tc" /\ rresult' = rresult
    /\ UNCHANGED <<rpath, hof_page, tc_page, hof_i, fame, rerr, notRes>>

\* scraper.py lines 253-261; models.py lines 90-98 and 79-86
TestCases ==
    /\ rpc = "tc"
    /\ rresult' = IF rpath = "get_test_cases" THEN scrape_test_cases(tc_page)
                  ELSE Task(TheDescriptor, fame, scrape_test_cases(tc_page))
    /\ rpc' = "returned"
    /\ UNCHANGED <<rpath, hof_page, tc_page, hof_i, fame, rerr, notRes>>

ResNext == HofOpen \/ HofRow \/ HofReturn \/ TestCases

(***************************************************************************)
(* The specifications.                                                     *)
(***************************************************************************)
Init == MainInit /\ ChunkOff /\ CatOff /\ CleanOff /\ ResOff /\ SubOff
Next == MainNext
Spec == Init /\ [][Next]_vars

InitChunks == ChunkInit /\ MainOff /\ CatOff /\ CleanOff /\ ResOff /\ SubOff
NextChunks == ChunkNext
SpecChunks == InitChunks /\ [][NextChunks]_vars

InitCatalog == CatInit /\ MainOff /\ ChunkOff /\ CleanOff /\ ResOff /\ SubOff
NextCatalog == CatNext
SpecCatalog == InitCatalog /\ [][NextCatalog]_vars

InitClean == CleanInit /\ MainOff /\ ChunkOff /\ CatOff /\ ResOff /\ SubOff
NextClean == CleanNext
SpecClean == InitClean /\ [][NextClean]_vars

InitResolve == ResInit /\ MainOff /\ ChunkOff /\ CatOff /\ CleanOff /\ SubOff
NextResolve == ResNext
SpecResolve == InitResolve /\ [][NextResolve]_vars

InitWorker == WorkerInit /\ ChunkOff /\ CatOff /\ CleanOff /\ ResOff /\ SubOff
NextWorker == WorkerNext
SpecWorker == InitWorker /\ [][NextWorker]_vars

InitSubmission == SubInit /\ MainOff /\ ChunkOff /\ CatOff /\ CleanOff /\ ResOff
NextSubmission == SubNext
SpecSubmission == InitSubmission /\ [][NextSubmission]_vars

(***************************************************************************)
(* Claims on the orchestration.                                            *)
(***************************************************************************)
\* the element of the output that belongs to descriptor d
IsOutputOf(x, d) ==
    \/ x = ResolveReturns(d)
    \/ /\ x.kind = "error"
       /\ x.task_id = d.task_id
       /\ x.error \in ResolveErrors

\* C1: when main() has written the aggregate output, the output has exactly
\* one element per descriptor of the catalog list, in the list's order, and
\* the element of descriptor d is the resolved Task of d or an error record
\* whose task_id is d's; the output has no other element.
C1_OneElementPerDescriptor ==
    mainpc = "done" =>
        /\ Len(all_results) = Len(partial_tasks)
        /\ \A k \in 1..Len(partial_tasks) : IsOutputOf(all_results[k], partial_tasks[k])

\* an output that holds a resolved Task and an error record
C1_Witness ==
    /\ mainpc = "done"
    /\ \E j, k \in 1..Len(all_results) :
          all_results[j].kind = "task" /\ all_results[k].kind = "error"

\* C2: a session object is used for requests by at most one process; an
\* invocation issues requests only on its local session, which is the one
\* its own clone_session() call returned and carries the login's cookies and
\* headers, and it has that session before it resolves an item.
C2_OneSessionOneWorker ==
    /\ \A s \in DOMAIN used : Cardinality(used[s]) <= 1
    /\ \A i \in Invocations : \A s \in DOMAIN used :
          i \in used[s] => s = wsession[i] /\ s = clone_session(i).id
    /\ \A i \in Invocations :
          wresults[i] # <<>> =>
              /\ wsession[i] \in DOMAIN sessions
              /\ i \in used[wsession[i]]
              /\ sessions[wsession[i]] = sessions[ScraperSession(Main)]
    /\ used[ScraperSession(Main)] = {Main}

\* two invocations have issued requests, each on its own session
C2_Witness ==
    \E i, j \in Invocations :
        /\ i # j
        /\ wsession[i] \in DOMAIN used
        /\ wsession[j] \in DOMAIN used
        /\ i \in used[wsession[i]]
        /\ j \in used[wsession[j]]
        /\ wsession[i] # wsession[j]

\* C3: main() never waits forever on the progress queue: as long as it has
\* neither written the output nor failed, some step of the program can be
\* taken.
C3_MainNeverWaitsForever ==
    mainpc \in {"done", "failed"} \/ ENABLED Next

(***************************************************************************)
(* Claims on the slices.                                                   *)
(***************************************************************************)
\* the positions (task_id of NthDescriptor) a slice holds
Positions(c) == {c[k].task_id : k \in 1..Len(c)}

\* C4: the slices main() builds are non-empty, pairwise disjoint and
\* contiguous, their concatenation in slice order is the descriptor list,
\* and there are at most NUM_PROCESSES of them.
C4_SlicesFitThePool ==
    cpc = "built" =>
        /\ \A k \in 1..Len(cchunks) : cchunks[k] # <<>>
        /\ \A j, k \in 1..Len(cchunks) :
              j # k => Positions(cchunks[j]) \cap Positions(cchunks[k]) = {}
        /\ Flatten(cchunks) = clist
        /\ Len(cchunks) <= NUM_PROCESSES

\* the same slices as MakeChunks, which partition the list in order
ChunksPartitionTheList ==
    cpc = "built" =>
        /\ cchunks = MakeChunks(clist)
        /\ \A k \in 1..Len(cchunks) : cchunks[k] # <<>>
        /\ Flatten(cchunks) = clist
        /\ Len(cchunks) <= 2 * NUM_PROCESSES - 1

(***************************************************************************)
(* Claims on the catalog.                                                  *)
(***************************************************************************)
Range(f) == {f[k] : k \in DOMAIN f}

\* the page has the main table, its body and the dropdown selector
Located == catpc # "off" /\ page.main_table /\ page.tbody /\ page.selector

\* a purely numeric visual index
Numeric(text) == text # None /\ text # <<>> /\ \A k \in 1..Len(text) : text[k] \in Digits

\* a row that can be turned into a valid descriptor: six columns, a numeric
\* visual index that has a dropdown option, a name, a nickname and a link
WellFormed(row, ids) ==
    /\ row.ncols = 6
    /\ Numeric(row.index_div)
    /\ DecimalValue(row.index_div) \in 1..Len(ids)
    /\ row.name # None /\ row.nickname # None
    /\ row.href # None /\ row.href # <<>>

DescriptorOf(row, ids) ==
    PartialTask(row.name, row.nickname, ids[DecimalValue(row.index_div)],
                DEFAULT_ROOT_URL \o <<"/">> \o lstrip_slash(row.href))

RECURSIVE DescriptorsOf(_, _)
DescriptorsOf(rows, ids) ==
    IF rows = <<>> THEN <<>>
    ELSE (IF WellFormed(Head(rows), ids) THEN <<DescriptorOf(Head(rows), ids)>> ELSE <<>>)
         \o DescriptorsOf(Tail(rows), ids)

\* at the return of __scrape_tasks: the rows with other than six columns
\* were reported and left out, every row went to the list or to the report,
\* and every well-formed row gave its descriptor
NonSixSkippedAtReturn ==
    catpc = "done" =>
        /\ \A k \in 1..Len(page.rows) : page.rows[k].ncols # 6 => k \in Range(log)
        /\ Len(tasks) + Len(log) = Len(page.rows)
        /\ \A k \in 1..Len(page.rows) :
              WellFormed(page.rows[k], tasks_id) =>
                  DescriptorOf(page.rows[k], tasks_id) \in Range(tasks)

\* C5: on a page with the main table and the dropdown selector, the rows
\* with other than six columns are left out of the descriptor list, no error
\* ends the extraction, and every well-formed row still gives its descriptor.
C5_NonSixColumnRowsExcluded ==
    (Located /\ \E k \in 1..Len(page.rows) : page.rows[k].ncols # 6) =>
        /\ catpc # "raised"
        /\ NonSixSkippedAtReturn

\* C6: no malformed row ends the extraction: every row that cannot be turned
\* into a valid descriptor is skipped and reported, and the extraction
\* returns the descriptors of the well-formed rows, in the rows' order.
C6_MalformedRowsSkipped ==
    Located =>
        /\ catpc # "raised"
        /\ catpc = "done" =>
              /\ tasks = DescriptorsOf(page.rows, tasks_id)
              /\ log = SelectSeq([k \in 1..Len(page.rows) |-> k],
                                 LAMBDA k : ~WellFormed(page.rows[k], tasks_id))

(***************************************************************************)
(* Claims on the code cleaning.                                            *)
(***************************************************************************)
\* C10: the cleaning is idempotent: cleaning a cleaned code changes nothing.
C10_CleanIsIdempotent == clpc = "twice" => twice = once

\* what one cleaning guarantees: no carriage return, no whitespace at
\* either end
CleanedOnce ==
    clpc # "raw" /\ clpc # "off" =>
        /\ \A k \in 1..Len(once) : once[k] # "\r"
        /\ once = strip(once)

(***************************************************************************)
(* The Test-Case Extractor and the Hall-of-Fame Resolver (SpecResolve).    *)
(***************************************************************************)
\* the test cases a finished call handed back
ReturnedTestCases == IF rpath = "get_test_cases" THEN rresult ELSE rresult.test_cases

\* the hall of fame a finished call handed back
ReturnedFame == IF rpath = "get_hall_of_fame" THEN rresult ELSE rresult.hall_of_fame

TestCasesOfFourBlocks ==
    /\ rpc = "returned" /\ rpath = "get_test_cases"
    /\ Len(tc_page) = 4 /\ tc_page[1] # tc_page[2] /\ Len(rresult) = 2

\* the rows after the header row
DataRows == 2..Len(hof_page.rows)

\* a row the spec expects an entry from: a language cell with a recognized
\* language and four links that each resolve to a submission with code
GoodRow(row) ==
    /\ row.td
    /\ strip(row.language) \in Language
    /\ Len(row.links) >= 4
    /\ \A k \in 0..3 : /\ LinkedSubmission(row.links, k).ok
                       /\ LinkedSubmission(row.links, k).val.code # <<>>

\* a row whose language cell holds a value outside Language
UnrecognizedRow(row) == row.td /\ strip(row.language) \notin Language

\* the call of get_hall_of_fame or resolve has ended
HofEnded == rpath \in {"get_hall_of_fame", "resolve"} /\ rpc \in {"returned", "raised"}

\* C8: a hall-of-fame table with a row whose language is not recognized makes
\* the resolution raise a ScrapingError naming that value, on get_hall_of_fame
\* and on resolve (the rows before that row being rows that resolve).
C8_UnrecognizedLanguageRaises ==
    HofEnded /\ hof_page.tables > 0 =>
        \A k \in DataRows :
            (UnrecognizedRow(hof_page.rows[k]) /\ \A j \in 2..(k - 1) : GoodRow(hof_page.rows[j]))
            => /\ rpc = "raised"
               /\ rerr.exc = "ScrapingError"
               /\ rerr.arg = strip(hof_page.rows[k].language)

\* the same on the get_hall_of_fame path alone
UnrecognizedRaisesInScraper ==
    rpath = "get_hall_of_fame" => C8_UnrecognizedLanguageRaises

\* the entry of the codes of a row's four submissions, in link order
CodesOf(row) ==
    [best_runtime  |-> LinkedSubmission(row.links, 0).val.code,
     best_memory   |-> LinkedSubmission(row.links, 1).val.code,
     shortest_code |-> LinkedSubmission(row.links, 2).val.code,
     first_solver  |-> LinkedSubmission(row.links, 3).val.code]

\* the last row of a language is the one the mapping keeps
LastOfLanguage(k) ==
    \A j \in DataRows : j > k => strip(hof_page.rows[j].language) # strip(hof_page.rows[k].language)

\* C9: a table whose rows have recognized languages and four links that each
\* resolve to a valid submission page yields, for each such language, an entry
\* of the four submissions' non-empty code strings in link order, on
\* get_hall_of_fame and in the Task made by resolve.
C9_EntryHoldsFourCodes ==
    (HofEnded /\ hof_page.tables > 0 /\ \A j \in DataRows : GoodRow(hof_page.rows[j])) =>
        \A k \in DataRows :
            LastOfLanguage(k) =>
                /\ rpc = "returned"
                /\ strip(hof_page.rows[k].language) \in DOMAIN ReturnedFame
                /\ ReturnedFame[strip(hof_page.rows[k].language)] = CodesOf(hof_page.rows[k])
                /\ \A f \in DOMAIN CodesOf(hof_page.rows[k]) : CodesOf(hof_page.rows[k])[f] # <<>>

\* the same on the get_hall_of_fame path alone
EntryHoldsFourCodesInScraper ==
    rpath = "get_hall_of_fame" => C9_EntryHoldsFourCodes

\* get_hall_of_fame returned the entries of two rows of different languages
FameOfTwoRows ==
    /\ rpc = "returned" /\ rpath = "get_hall_of_fame"
    /\ Cardinality(DOMAIN rresult) = 2

\* resolve ended on a table that has a row
ResolveEndedWithRow ==
    /\ rpath = "resolve" /\ rpc \in {"returned", "raised"}
    /\ hof_page.tables > 0 /\ DataRows # {}

(***************************************************************************)
(* The Submission Extractor (SpecSubmission).                              *)
(***************************************************************************)
\* the non-empty pieces of a path between its slashes
RECURSIVE NonEmptyPieces(_)
NonEmptyPieces(pieces) ==
    IF pieces = <<>> THEN <<>>
    ELSE IF Head(pieces) = <<>> THEN NonEmptyPieces(Tail(pieces))
    ELSE <<Head(pieces)>> \o NonEmptyPieces(Tail(pieces))

\* the last non-empty path segment of a profile link
LastSegment(href) ==
    LET pieces == NonEmptyPieces(split(strip(href), "/"))
    IN IF pieces = <<>> THEN <<>> ELSE pieces[Len(pieces)]

\* the own text of the User cell is the redaction marker
Redacted == subpage.user_own # None /\ strip(subpage.user_own) = RedactionMarker

\* C11: a submission whose User cell's own text is the redaction marker has no
\* author; every other extracted submission has an author with a non-empty
\* name and a non-empty identifier, the last non-empty path segment of the
\* profile link, written with or without a trailing slash.
C11_AuthorAbsentOrIdentified ==
    subpc = "returned" =>
        IF Redacted THEN subresult.val.user = <<>>
        ELSE /\ Len(subresult.val.user) = 1
             /\ subresult.val.user[1].user_name # <<>>
             /\ subresult.val.user[1].user_id # <<>>
             /\ subresult.val.user[1].user_id = LastSegment(subpage.user_href)

\* the same for the links that end with a slash
AuthorIdentifiedWithTrailingSlash ==
    (/\ subpc = "returned"
     /\ subpage.user_href # None
     /\ strip(subpage.user_href) # <<>>
     /\ strip(subpage.user_href)[Len(strip(subpage.user_href))] = "/")
    => C11_AuthorAbsentOrIdentified

\* a redacted submission was extracted
RedactedExtracted == subpc = "returned" /\ Redacted /\ subresult.val.user = <<>>

\* a submission with a profile link without a trailing slash was extracted
NoTrailingSlashExtracted ==
    /\ subpc = "returned" /\ ~Redacted
    /\ subpage.user_href = <<"/", "users", "/", "21">>

(***************************************************************************)
(* The identifiers of the catalog's descriptors (SpecCatalog).             *)
(***************************************************************************)
\* the rows handled so far that gave a descriptor, in order: tasks[k] came
\* from row YieldingRows[k]
YieldingRows == SelectSeq([k \in 1..(ri - 1) |-> k], LAMBDA k : k \notin Range(log))

\* the 1-based visual index of a row that gave a descriptor
VisualIndex(row) == DecimalValue(row.index_div)

\* the option at zero-based position v - 1 after the placeholder option is
\* page.options[v + 1]; it has an identifier when its value is a non-empty text
HasOptionAt(v) == v >= 1 /\ v + 1 <= Len(page.options) /\ Truthy(page.options[v + 1])

\* C12: every row that gives a descriptor gives it the value of the dropdown
\* option at zero-based position v - 1 after the placeholder option, v being
\* the row's 1-based visual index; a visual index of 0 or an option with an
\* empty or missing value never gives a row the identifier of another position.
C12_IdentifierOfOwnPosition ==
    catpc \in {"rows", "done", "raised"} =>
        /\ Len(YieldingRows) = Len(tasks)
        /\ \A k \in 1..Len(tasks) :
              /\ HasOptionAt(VisualIndex(page.rows[YieldingRows[k]]))
              /\ tasks[k].task_id = page.options[VisualIndex(page.rows[YieldingRows[k]]) + 1]

\* the same on the pages whose options after the placeholder all have a
\* value, for the rows with a visual index of 1 or more
IdentifierOfOwnPositionOnPlainPages ==
    catpc \in {"rows", "done", "raised"} =>
        /\ Len(YieldingRows) = Len(tasks)
        /\ (\A j \in 2..Len(page.options) : Truthy(page.options[j])) =>
              \A k \in 1..Len(tasks) :
                 VisualIndex(page.rows[YieldingRows[k]]) >= 1 =>
                    /\ HasOptionAt(VisualIndex(page.rows[YieldingRows[k]]))
                    /\ tasks[k].task_id = page.options[VisualIndex(page.rows[YieldingRows[k]]) + 1]

\* a row with visual index 0 gave a descriptor
ZeroIndexYielded ==
    \E k \in 1..Len(tasks) : catpc = "done" /\ VisualIndex(page.rows[YieldingRows[k]]) = 0

\* a row gave a descriptor on a page with an option without a value
YieldedBesideEmptyOption ==
    /\ catpc = "done" /\ Len(tasks) = 2
    /\ \E j \in 2..Len(page.options) : ~Truthy(page.options[j])

(***************************************************************************)
(* The results of one worker's slice (SpecWorker, and Spec).               *)
(***************************************************************************)
\* the items of its slice an invocation has finished with
Handled(i) == IF wpc[i] \in {"put", "raised"} THEN Len(wresults[i]) ELSE widx[i] - 1

\* C13: a worker gathers its results in the order of its slice: result j
\* belongs to item j, a Task or an error record, also when items failed, and
\* a worker that returns has exactly one result per item of its slice: a
\* failed item does not end the loop over the items after it.
C13_ResultsFollowTheSlice ==
    \A i \in Invocations :
        wpc[i] # "queued" =>
            /\ Len(wresults[i]) <= Len(chunks[i])
            /\ Len(wresults[i]) = Handled(i)
            /\ \A j \in 1..Len(wresults[i]) :
                  IsOutputOf(JsonLoads(wresults[i][j]), chunks[i][j])
            /\ wpc[i] = "returned" => Len(wresults[i]) = Len(chunks[i])

\* a worker returned the results of a slice of three items of which the
\* first two differ: the first failed, the second and third were resolved
C13_Witness ==
    \E i \in Invocations :
        /\ wpc[i] = "returned"
        /\ Len(chunks[i]) = 3
        /\ chunks[i][1] # chunks[i][2]
        /\ JsonLoads(wresults[i][1]).kind = "error"
        /\ JsonLoads(wresults[i][2]).kind = "task"
        /\ JsonLoads(wresults[i][3]).kind = "task"

=============================================================================
